---- MODULE Spec2Model ----
(***************************************************************************)
(* Verification model of bevy-collision-balls: the QuadTree spatial index  *)
(* (src/quadtree), the ball collision check and response (src/collision.rs)*)
(* and the per-tick pipeline check_collisions_quadtree (src/main.rs).      *)
(*                                                                         *)
(* Coordinates of the quadtree are integers.  The arena is scaled so that  *)
(* every halving made by a split down to level MaxLevel is exact, as f32   *)
(* halving is.  Input corners lie on a grid coarse enough that two         *)
(* distinct corners are separated by the splits above level MaxLevel; a    *)
(* split demanded at level MaxLevel therefore only happens for entries     *)
(* sharing a corner, which no split separates: the recursion of the code   *)
(* then runs until `depth + 1` overflows u8 or from_corners' assertion     *)
(* fails, i.e. the call panics.                                            *)
(*                                                                         *)
(* Positions, velocities, radii and masses are f32 values, modelled as     *)
(* exact rationals with NaN and the infinities; the bodies are chosen so   *)
(* that every square root taken is rational.                               *)
(*                                                                         *)
(* Spec      a QuadTree under a sequence of top-level inserts              *)
(* SpecPair  BallCollisions::check and balls_bounce_after_collision on one *)
(*           pair of bodies                                                *)
(* SpecTick  check_collisions_quadtree on a set of bodies, one loop        *)
(*           iteration per step                                            *)
(***************************************************************************)
EXTENDS Integers, Sequences, FiniteSets, TLC

\* ------------------------------------------------------------------ bounds
MaxLevel == 4
MaxInserts == 3

\* ------------------------------------------------------- program constants
DefaultMaxDepth == 255
U8Mod == 256

RootHalfX == 2 * (2 ^ MaxLevel)
RootHalfY == 2 ^ MaxLevel
GridX == RootHalfX \div 4
GridY == RootHalfY \div 4

\* main.rs: arena size, and the capacity given to QuadTree::new by the tick
WIDTH == 1024
HEIGHT == 768
TickCapacity == 4

\* resolution of a square root that is not a rational number
SqrtScale == 64

VARIABLES tree, options, inserted, last, status,
          bodies, collisions, ctl, hist

qvars == <<tree, options, inserted, last, status>>
pvars == <<bodies, collisions, ctl, hist>>
vars == <<tree, options, inserted, last, status, bodies, collisions, ctl, hist>>

\* ------------------------------------------------------------ Vec2 / Point
Vec(x, y) == [x |-> x, y |-> y]

\* `* 0.5` on a value the scaling keeps even
Half(v) == v \div 2

\* ------------------------------------------------------------------ Bounds
BoundsNew(center, width, height) ==
    [center |-> center, half_extents |-> Vec(Half(width), Half(height))]

BoundsFromCenter(center, half_extents) ==
    [center |-> center, half_extents |-> half_extents]

Width(b) == b.half_extents.x * 2
Height(b) == b.half_extents.y * 2
Top(b) == b.center.y + b.half_extents.y
Bottom(b) == b.center.y - b.half_extents.y
Left(b) == b.center.x - b.half_extents.x
Right(b) == b.center.x + b.half_extents.x
TopLeft(b) == Vec(Left(b), Top(b))
TopRight(b) == Vec(Right(b), Top(b))
BottomLeft(b) == Vec(Left(b), Bottom(b))
BottomRight(b) == Vec(Right(b), Bottom(b))

\* from_corners without the `min.y > max.y` branch
FromCornersNoFlip(min, max) ==
    LET hx == Half(max.x - min.x)
        hy == Half(max.y - min.y)
    IN  [center |-> Vec(min.x + hx, min.y + hy), half_extents |-> Vec(hx, hy)]

FromCorners(min, max) ==
    LET hx == Half(max.x - min.x)
        hy == IF min.y > max.y THEN Half(min.y - max.y) ELSE Half(max.y - min.y)
        cy == IF min.y > max.y THEN min.y - hy ELSE min.y + hy
    IN  [center |-> Vec(min.x + hx, cy), half_extents |-> Vec(hx, hy)]

\* contains with the top edge left out
BoundsContainsOpenTop(b, point) ==
    /\ point.x >= Left(b)
    /\ point.x <= Right(b)
    /\ point.y < Top(b)
    /\ point.y >= Bottom(b)

BoundsContains(b, point) ==
    /\ point.x >= Left(b)
    /\ point.x <= Right(b)
    /\ point.y <= Top(b)
    /\ point.y >= Bottom(b)

\* intersects testing three of the four corners only
IntersectsThreeCorners(b, area) ==
    \/ BoundsContains(b, TopLeft(area))
    \/ BoundsContains(b, TopRight(area))
    \/ BoundsContains(b, BottomLeft(area))

Intersects(b, area) ==
    \/ BoundsContains(b, TopLeft(area))
    \/ BoundsContains(b, TopRight(area))
    \/ BoundsContains(b, BottomLeft(area))
    \/ BoundsContains(b, BottomRight(area))

\* ---------------------------------------------------------------- Location
LocPoint(p) == [kind |-> "Point", center |-> p, half_extents |-> Vec(0, 0)]
LocArea(b) == [kind |-> "Area", center |-> b.center, half_extents |-> b.half_extents]
AreaOf(loc) == [center |-> loc.center, half_extents |-> loc.half_extents]

LocationFromCenter(center, width, height) ==
    IF width = 0 /\ height = 0
    THEN LocPoint(center)
    ELSE LocArea(BoundsFromCenter(center, Vec(Half(width), Half(height))))

\* ---------------------------------------------------------------- QuadTree
None == [some |-> FALSE, v |-> 0]
Some(n) == [some |-> TRUE, v |-> n]
NoSize == [some |-> FALSE, x |-> 0, y |-> 0]
SomeSize(x, y) == [some |-> TRUE, x |-> x, y |-> y]
UnwrapOr(opt, default) == IF opt.some THEN opt.v ELSE default

U8Add(a, b) == (a + b) % U8Mod

MkTree(bounds, depth, kind, elems, regions) ==
    [bounds |-> bounds, depth |-> depth, kind |-> kind,
     elems |-> elems, regions |-> regions]

QuadTreeNew(bounds) == MkTree(bounds, 0, "Empty", <<>>, <<>>)

NewRegion(bounds, depth) == MkTree(bounds, U8Add(depth, 1), "Empty", <<>>, <<>>)

IsEmpty(t) == t.kind = "Empty"
IsLeaf(t) == t.kind = "Leaf"

Contains(t, location) ==
    IF location.kind = "Point"
    THEN BoundsContains(t.bounds, location.center)
    ELSE Intersects(t.bounds, AreaOf(location))

Entry(loc, val) == [loc |-> loc, val |-> val]

\* the four child regions built by a split, in Region::index order
\* the split giving the south west region the bounds of the north west one
SplitRegionsTwiceNorthWest(t) ==
    LET center == t.bounds.center
    IN  << NewRegion(FromCorners(TopLeft(t.bounds), center), U8Add(t.depth, 1)),
           NewRegion(FromCorners(center, TopRight(t.bounds)), U8Add(t.depth, 1)),
           NewRegion(FromCorners(center, BottomRight(t.bounds)), U8Add(t.depth, 1)),
           NewRegion(FromCorners(TopLeft(t.bounds), center), U8Add(t.depth, 1)) >>

SplitRegions(t) ==
    LET center == t.bounds.center
    IN  << NewRegion(FromCorners(TopLeft(t.bounds), center), U8Add(t.depth, 1)),
           NewRegion(FromCorners(center, TopRight(t.bounds)), U8Add(t.depth, 1)),
           NewRegion(FromCorners(center, BottomRight(t.bounds)), U8Add(t.depth, 1)),
           NewRegion(FromCorners(BottomLeft(t.bounds), center), U8Add(t.depth, 1)) >>

\* LeafKeeps with the capacity test off by one (`<= capacity + 1`)
LeafKeepsOffByOne(t, elems, opts) ==
    \/ Len(elems) <= opts.capacity + 1
    \/ t.depth >= UnwrapOr(opts.max_depth, DefaultMaxDepth)
    \/ /\ opts.min_size.some
       /\ \/ Width(t.bounds) <= opts.min_size.x * 2
          \/ Height(t.bounds) <= opts.min_size.y * 2

\* the leaf stays a leaf: not over capacity, max depth reached, or min size
LeafKeeps(t, elems, opts) ==
    \/ Len(elems) <= opts.capacity
    \/ t.depth >= UnwrapOr(opts.max_depth, DefaultMaxDepth)
    \/ /\ opts.min_size.some
       /\ \/ Width(t.bounds) <= opts.min_size.x * 2
          \/ Height(t.bounds) <= opts.min_size.y * 2

Ok(t) == [res |-> "Ok", tree |-> t, bounds |-> t.bounds]
\* an OutOfBounds that throws the content of the refusing tree away
ErrDropsContent(t) ==
    [res |-> "OutOfBounds", tree |-> QuadTreeNew(t.bounds), bounds |-> t.bounds]
Err(t) == [res |-> "OutOfBounds", tree |-> t, bounds |-> t.bounds]
Panic(t) == [res |-> "Panic", tree |-> t, bounds |-> t.bounds]

RECURSIVE Insert(_, _, _, _, _)
RECURSIVE InsertRegions(_, _, _, _, _, _)
RECURSIVE InsertElems(_, _, _, _, _)
RECURSIVE InsertLeaf(_, _, _, _, _)
RECURSIVE InsertNode(_, _, _, _, _)

\* insert into regions[i..4], discarding each region's Result (`let _ =`)
InsertRegions(regions, i, location, value, opts, level) ==
    IF i > 4 THEN [panic |-> FALSE, regions |-> regions]
    ELSE LET r == Insert(regions[i], location, value, opts, level)
         IN  IF r.res = "Panic"
             THEN [panic |-> TRUE, regions |-> regions]
             ELSE InsertRegions([regions EXCEPT ![i] = r.tree], i + 1,
                                location, value, opts, level)

\* `for (loc, val) in elems.iter()` of the split, from element k on
InsertElems(regions, elems, k, opts, level) ==
    IF k > Len(elems) THEN [panic |-> FALSE, regions |-> regions]
    ELSE LET r == InsertRegions(regions, 1, elems[k].loc, elems[k].val, opts, level)
         IN  IF r.panic THEN r
             ELSE InsertElems(r.regions, elems, k + 1, opts, level)

\* Body::Empty arm
InsertEmpty(t, location, value) ==
    Ok([t EXCEPT !.kind = "Leaf", !.elems = <<Entry(location, value)>>])

\* Body::Leaf arm; a split demanded at level MaxLevel never ends normally
InsertLeaf(t, location, value, opts, level) ==
    LET elems == Append(t.elems, Entry(location, value))
    IN  IF LeafKeeps(t, elems, opts)
        THEN Ok([t EXCEPT !.elems = elems])
        ELSE IF level >= MaxLevel
        THEN Panic(t)
        ELSE LET r == InsertElems(SplitRegions(t), elems, 1, opts, level + 1)
             IN  IF r.panic THEN Panic(t)
                 ELSE Ok([t EXCEPT !.kind = "Node", !.elems = <<>>,
                                   !.regions = r.regions])

\* Body::Node arm with `regions[0].insert(location, value)?` for `let _ =`
InsertNodePropagate(t, location, value, opts, level) ==
    LET first == Insert(t.regions[1], location, value, opts, level + 1)
        r == InsertRegions(t.regions, 1, location, value, opts, level + 1)
    IN  IF first.res = "OutOfBounds" THEN [first EXCEPT !.tree = t]
        ELSE IF r.panic THEN Panic(t)
        ELSE Ok([t EXCEPT !.regions = r.regions])

\* Body::Node arm
InsertNode(t, location, value, opts, level) ==
    LET r == InsertRegions(t.regions, 1, location, value, opts, level + 1)
    IN  IF r.panic THEN Panic(t)
        ELSE Ok([t EXCEPT !.regions = r.regions])

\* QuadTree::insert on the node t that has `level` ancestors
Insert(t, location, value, opts, level) ==
    IF ~Contains(t, location) THEN Err(t)
    ELSE IF t.kind = "Empty" THEN InsertEmpty(t, location, value)
    ELSE IF t.kind = "Leaf" THEN InsertLeaf(t, location, value, opts, level)
    ELSE InsertNode(t, location, value, opts, level)

RECURSIVE Count(_)
Count(t) ==
    IF t.kind = "Empty" THEN 0
    ELSE IF t.kind = "Leaf" THEN Len(t.elems)
    ELSE Count(t.regions[1]) + Count(t.regions[2])
         + Count(t.regions[3]) + Count(t.regions[4])

\* get_regions: the leaves of the tree, depth first in region order
RECURSIVE GetRegions(_)
GetRegions(t) ==
    IF t.kind = "Empty" THEN <<>>
    ELSE IF t.kind = "Leaf" THEN <<t>>
    ELSE GetRegions(t.regions[1]) \o GetRegions(t.regions[2])
         \o GetRegions(t.regions[3]) \o GetRegions(t.regions[4])

\* -------------------------------------------------------------- f32 values
\* A finite value is the exact rational n/d in lowest terms with d > 0;
\* d = 0 is a non-finite value: NaN (n = 0), +inf (n = 1), -inf (n = -1).
RECURSIVE Gcd(_, _)
Gcd(a, b) == IF b = 0 THEN a ELSE Gcd(b, a % b)

Abs(a) == IF a < 0 THEN -a ELSE a
Sign(a) == IF a > 0 THEN 1 ELSE IF a < 0 THEN -1 ELSE 0

Frac(n, d) ==
    LET g == Gcd(Abs(n), Abs(d))
        s == IF d < 0 THEN -1 ELSE 1
    IN  [n |-> s * (n \div g), d |-> s * (d \div g)]

Lcm(a, b) == (a \div Gcd(a, b)) * b

F(n) == [n |-> n, d |-> 1]
NaN == [n |-> 0, d |-> 0]
Inf(s) == [n |-> s, d |-> 0]
IsNaN(a) == a.d = 0 /\ a.n = 0
IsInf(a) == a.d = 0 /\ a.n # 0
IsFinite(a) == a.d # 0

FNeg(a) == [n |-> -a.n, d |-> a.d]

FAdd(a, b) ==
    IF IsNaN(a) \/ IsNaN(b) THEN NaN
    ELSE IF IsInf(a) THEN (IF IsInf(b) /\ b.n # a.n THEN NaN ELSE a)
    ELSE IF IsInf(b) THEN b
    ELSE LET l == Lcm(a.d, b.d)
         IN  Frac(a.n * (l \div a.d) + b.n * (l \div b.d), l)

FSub(a, b) == FAdd(a, FNeg(b))

FMul(a, b) ==
    IF IsNaN(a) \/ IsNaN(b) THEN NaN
    ELSE IF IsInf(a) \/ IsInf(b)
    THEN (IF a.n = 0 \/ b.n = 0 THEN NaN ELSE Inf(Sign(a.n) * Sign(b.n)))
    ELSE LET g == Gcd(Abs(a.n), b.d)
             h == Gcd(Abs(b.n), a.d)
         IN  Frac((a.n \div g) * (b.n \div h), (a.d \div h) * (b.d \div g))

FDiv(a, b) ==
    IF IsNaN(a) \/ IsNaN(b) THEN NaN
    ELSE IF IsInf(b) THEN (IF IsInf(a) THEN NaN ELSE F(0))
    ELSE IF b.n = 0 THEN (IF a.n = 0 THEN NaN ELSE Inf(Sign(a.n)))
    ELSE IF IsInf(a) THEN Inf(Sign(a.n) * Sign(b.n))
    ELSE FMul(a, Frac(b.d, b.n))

\* a > b; every comparison with NaN is false
FGt(a, b) ==
    IF IsNaN(a) \/ IsNaN(b) THEN FALSE
    ELSE IF IsInf(a) THEN a.n = 1 /\ ~(IsInf(b) /\ b.n = 1)
    ELSE IF IsInf(b) THEN b.n = -1
    ELSE LET l == Lcm(a.d, b.d)
         IN  a.n * (l \div a.d) > b.n * (l \div b.d)

FLt(a, b) == FGt(b, a)
FEq(a, b) == ~IsNaN(a) /\ ~IsNaN(b) /\ a = b
FGe(a, b) == FGt(a, b) \/ FEq(a, b)
FLe(a, b) == FGt(b, a) \/ FEq(a, b)

\* the integer square root of m, searched between lo and hi
RECURSIVE ISqrtIn(_, _, _)
ISqrtIn(m, lo, hi) ==
    IF hi - lo <= 1 THEN lo
    ELSE LET mid == (lo + hi) \div 2
         IN  IF mid * mid <= m THEN ISqrtIn(m, mid, hi) ELSE ISqrtIn(m, lo, mid)

ISqrt(m) == ISqrtIn(m, 0, IF m < 46340 THEN m + 1 ELSE 46340)

\* f32::sqrt: exact on the square of a rational, else rounded down to a
\* multiple of 1/(d * SqrtScale)
FSqrt(a) ==
    IF IsNaN(a) \/ a.n < 0 THEN NaN
    ELSE IF IsInf(a) THEN a
    ELSE LET m == a.n * a.d
             r == ISqrt(m)
         IN  IF r * r = m THEN Frac(r, a.d)
             ELSE Frac(ISqrt(m * SqrtScale * SqrtScale), a.d * SqrtScale)

FVec(x, y) == [x |-> F(x), y |-> F(y)]

\* ------------------------------------------------------------- components
\* Ball { radius, mass } with its Transform translation and its Velocity
Body(pos, vel, radius) ==
    [pos |-> pos, vel |-> vel, radius |-> F(radius), mass |-> F(radius * radius)]

\* --------------------------------------------------------------- collision
\* EdgeCollider checks: result [hit, body]
\* check_left putting the body on its limit instead of mirroring it
CheckLeftClamp(bounds, b) ==
    LET min_x == FAdd(F(Left(bounds)), b.radius)
    IN  IF FGt(b.pos.x, min_x) THEN [hit |-> FALSE, body |-> b]
        ELSE [hit |-> TRUE,
              body |-> [b EXCEPT !.pos.x = min_x,
                                 !.vel.x = FMul(b.vel.x, F(-1))]]

CheckLeft(bounds, b) ==
    LET min_x == FAdd(F(Left(bounds)), b.radius)
    IN  IF FGt(b.pos.x, min_x) THEN [hit |-> FALSE, body |-> b]
        ELSE [hit |-> TRUE,
              body |-> [b EXCEPT !.pos.x = FAdd(min_x, FSub(min_x, b.pos.x)),
                                 !.vel.x = FMul(b.vel.x, F(-1))]]

CheckRight(bounds, b) ==
    LET max_x == FSub(F(Right(bounds)), b.radius)
    IN  IF FLt(b.pos.x, max_x) THEN [hit |-> FALSE, body |-> b]
        ELSE [hit |-> TRUE,
              body |-> [b EXCEPT !.pos.x = FSub(max_x, FSub(b.pos.x, max_x)),
                                 !.vel.x = FMul(b.vel.x, F(-1))]]

\* check_top mirroring the body by twice its overshoot
CheckTopDouble(bounds, b) ==
    LET max_y == FSub(F(Top(bounds)), b.radius)
    IN  IF FLt(b.pos.y, max_y) THEN [hit |-> FALSE, body |-> b]
        ELSE [hit |-> TRUE,
              body |-> [b EXCEPT !.pos.y = FSub(max_y, FMul(F(2), FSub(b.pos.y, max_y))),
                                 !.vel.y = FMul(b.vel.y, F(-1))]]

CheckTop(bounds, b) ==
    LET max_y == FSub(F(Top(bounds)), b.radius)
    IN  IF FLt(b.pos.y, max_y) THEN [hit |-> FALSE, body |-> b]
        ELSE [hit |-> TRUE,
              body |-> [b EXCEPT !.pos.y = FSub(max_y, FSub(b.pos.y, max_y)),
                                 !.vel.y = FMul(b.vel.y, F(-1))]]

CheckBottom(bounds, b) ==
    LET min_y == FAdd(F(Bottom(bounds)), b.radius)
    IN  IF FGt(b.pos.y, min_y) THEN [hit |-> FALSE, body |-> b]
        ELSE [hit |-> TRUE,
              body |-> [b EXCEPT !.pos.y = FAdd(min_y, FSub(min_y, b.pos.y)),
                                 !.vel.y = FMul(b.vel.y, F(-1))]]

\* the store filled from the front
StorePushFront(store, pair) == <<pair>> \o store

\* self.store.push([a, b])
StorePush(store, pair) == Append(store, pair)

\* BallCollisions::check on the bodies A (id a) and B (id b)
Check(store, a, A, b, B) ==
    LET x == FSub(A.pos.x, B.pos.x)
        y == FSub(A.pos.y, B.pos.y)
        r == FAdd(A.radius, B.radius)
        squared == FAdd(FMul(x, x), FMul(y, y))
    IN  IF FGt(squared, FMul(r, r))
        THEN [store |-> store, a |-> A, b |-> B]
        ELSE LET distance == FSqrt(squared)
                 overlap == FMul(FSub(distance, r), Frac(1, 2))
                 mx == FDiv(FMul(overlap, x), distance)
                 my == FDiv(FMul(overlap, y), distance)
             IN  [store |-> StorePush(store, <<a, b>>),
                  a |-> [A EXCEPT !.pos.x = FSub(A.pos.x, mx),
                                  !.pos.y = FSub(A.pos.y, my)],
                  b |-> [B EXCEPT !.pos.x = FAdd(B.pos.x, mx),
                                  !.pos.y = FAdd(B.pos.y, my)]]

\* balls_bounce_after_collision with the components of the normal exchanged
BounceSwappedNormal(A, B) ==
    LET x == FSub(A.pos.x, B.pos.x)
        y == FSub(A.pos.y, B.pos.y)
        distance == FSqrt(FAdd(FMul(x, x), FMul(y, y)))
        nx == FDiv(FSub(B.pos.y, A.pos.y), distance)
        ny == FDiv(FSub(B.pos.x, A.pos.x), distance)
        kx == FSub(A.vel.x, B.vel.x)
        ky == FSub(A.vel.y, B.vel.y)
        p == FDiv(FMul(F(2), FAdd(FMul(nx, kx), FMul(ny, ky))),
                  FAdd(A.mass, B.mass))
    IN  [a |-> [A EXCEPT !.vel.x = FSub(A.vel.x, FMul(FMul(p, B.mass), nx)),
                         !.vel.y = FSub(A.vel.y, FMul(FMul(p, B.mass), ny))],
         b |-> [B EXCEPT !.vel.x = FAdd(B.vel.x, FMul(FMul(p, A.mass), nx)),
                         !.vel.y = FAdd(B.vel.y, FMul(FMul(p, A.mass), ny))]]

\* balls_bounce_after_collision giving B the impulse weighted by its own mass
BounceOwnMass(A, B) ==
    LET x == FSub(A.pos.x, B.pos.x)
        y == FSub(A.pos.y, B.pos.y)
        distance == FSqrt(FAdd(FMul(x, x), FMul(y, y)))
        nx == FDiv(FSub(B.pos.x, A.pos.x), distance)
        ny == FDiv(FSub(B.pos.y, A.pos.y), distance)
        kx == FSub(A.vel.x, B.vel.x)
        ky == FSub(A.vel.y, B.vel.y)
        p == FDiv(FMul(F(2), FAdd(FMul(nx, kx), FMul(ny, ky))),
                  FAdd(A.mass, B.mass))
    IN  [a |-> [A EXCEPT !.vel.x = FSub(A.vel.x, FMul(FMul(p, B.mass), nx)),
                         !.vel.y = FSub(A.vel.y, FMul(FMul(p, B.mass), ny))],
         b |-> [B EXCEPT !.vel.x = FAdd(B.vel.x, FMul(FMul(p, B.mass), nx)),
                         !.vel.y = FAdd(B.vel.y, FMul(FMul(p, B.mass), ny))]]

\* balls_bounce_after_collision: result [a, b]
Bounce(A, B) ==
    LET x == FSub(A.pos.x, B.pos.x)
        y == FSub(A.pos.y, B.pos.y)
        distance == FSqrt(FAdd(FMul(x, x), FMul(y, y)))
        nx == FDiv(FSub(B.pos.x, A.pos.x), distance)
        ny == FDiv(FSub(B.pos.y, A.pos.y), distance)
        kx == FSub(A.vel.x, B.vel.x)
        ky == FSub(A.vel.y, B.vel.y)
        p == FDiv(FMul(F(2), FAdd(FMul(nx, kx), FMul(ny, ky))),
                  FAdd(A.mass, B.mass))
    IN  [a |-> [A EXCEPT !.vel.x = FSub(A.vel.x, FMul(FMul(p, B.mass), nx)),
                         !.vel.y = FSub(A.vel.y, FMul(FMul(p, B.mass), ny))],
         b |-> [B EXCEPT !.vel.x = FAdd(B.vel.x, FMul(FMul(p, A.mass), nx)),
                         !.vel.y = FAdd(B.vel.y, FMul(FMul(p, A.mass), ny))]]

\* ------------------------------------------------- inputs of the tree model
RootBounds == BoundsNew(Vec(0, 0), 2 * RootHalfX, 2 * RootHalfY)

G(i, j) == Vec(i * GridX, j * GridY)

Locations ==
    { LocationFromCenter(G(0, 0), 0, 0),
      LocationFromCenter(G(1, 1), 0, 0),
      LocationFromCenter(G(2, 2), 0, 0),
      LocationFromCenter(G(3, 3), 0, 0),
      LocationFromCenter(G(-2, 1), 0, 0),
      LocationFromCenter(G(5, 0), 0, 0),
      LocationFromCenter(G(1, 1), 2 * GridX, 2 * GridY),
      LocationFromCenter(G(0, 1), 6 * GridX, 2 * GridY),
      LocationFromCenter(G(-4, -4), 2 * GridX, 2 * GridY),
      LocationFromCenter(G(6, 6), 2 * GridX, 2 * GridY) }

OptionsSet ==
    [capacity : {1, 2},
     max_depth : {None, Some(1), Some(3)},
     min_size : {NoSize, SomeSize(RootHalfX \div 2, RootHalfY \div 2)}]

NoCall == [called |-> FALSE, loc |-> LocPoint(Vec(0, 0)), val |-> 0,
           res |-> "Ok", errBounds |-> RootBounds,
           before |-> QuadTreeNew(RootBounds)]

IdleCtl == [pc |-> "idle", scene |-> 0, k |-> 0, regions |-> <<>>,
            ri |-> 0, i |-> 0, j |-> 0, ci |-> 0]
NoHist == [op |-> "none", before |-> <<>>, storeBefore |-> <<>>,
           checked |-> <<>>, recorded |-> <<>>, applied |-> <<>>, pre |-> <<>>]

\* ------------------------------------------------------ tree state machine
Init ==
    /\ tree = QuadTreeNew(RootBounds)
    /\ options \in OptionsSet
    /\ inserted = {}
    /\ last = NoCall
    /\ status = "run"
    /\ bodies = <<>>
    /\ collisions = <<>>
    /\ ctl = IdleCtl
    /\ hist = NoHist

\* one top-level call tree.insert(location, value)
InsertCall ==
    /\ status = "run"
    /\ last.val < MaxInserts
    /\ \E loc \in Locations :
        LET val == last.val + 1
            r == Insert(tree, loc, val, options, 0)
        IN  /\ last' = [called |-> TRUE, loc |-> loc, val |-> val,
                        res |-> r.res, errBounds |-> r.bounds, before |-> tree]
            /\ tree' = r.tree
            /\ inserted' = IF r.res = "Ok"
                           THEN inserted \cup {Entry(loc, val)} ELSE inserted
            /\ status' = IF r.res = "Panic" THEN "panicked" ELSE "run"
            /\ UNCHANGED <<options, bodies, collisions, ctl, hist>>

Next == InsertCall

Spec == Init /\ [][Next]_vars


\* ------------------------------------------- one pair: check and response
PairOffsets ==
    { Vec(8, 0), Vec(0, 0), Vec(6, 8), Vec(-3, 4), Vec(0, -10), Vec(12, 5), Vec(30, 0) }
PairRadii == {3, 5}
PairVelA == { Vec(5, 0), Vec(0, 0), Vec(-2, 3) }
PairVelB == { Vec(-5, 0), Vec(1, 1) }

PairCtl == [IdleCtl EXCEPT !.pc = "pair"]

InitPair ==
    /\ tree = QuadTreeNew(RootBounds)
    /\ options = [capacity |-> TickCapacity, max_depth |-> None, min_size |-> NoSize]
    /\ inserted = {}
    /\ last = NoCall
    /\ status = "run"
    /\ \E d \in PairOffsets, ra, rb \in PairRadii, va \in PairVelA, vb \in PairVelB :
          bodies = << Body(FVec(100, 100), FVec(va.x, va.y), ra),
                      Body(FVec(100 + d.x, 100 + d.y), FVec(vb.x, vb.y), rb) >>
    /\ collisions = <<>>
    /\ ctl = PairCtl
    /\ hist = NoHist

\* collisions.check([(1, A), (2, B)]) on the pair
PairCheck ==
    /\ ctl.pc = "pair"
    /\ hist.op = "none"
    /\ LET r == Check(collisions, 1, bodies[1], 2, bodies[2])
       IN  /\ bodies' = <<r.a, r.b>>
           /\ collisions' = r.store
    /\ hist' = [hist EXCEPT !.op = "check", !.before = bodies,
                            !.storeBefore = collisions]
    /\ UNCHANGED <<tree, options, inserted, last, status, ctl>>

\* balls_bounce_after_collision on the pair
PairBounce ==
    /\ ctl.pc = "pair"
    /\ hist.op \in {"none", "check"}
    /\ LET r == Bounce(bodies[1], bodies[2])
       IN  bodies' = <<r.a, r.b>>
    /\ hist' = [hist EXCEPT !.op = "bounce", !.before = bodies,
                            !.storeBefore = collisions]
    /\ UNCHANGED <<tree, options, inserted, last, status, ctl, collisions>>

NextPair == PairCheck \/ PairBounce

SpecPair == InitPair /\ [][NextPair]_vars

\* ----------------------------------------- one tick of the quadtree system
TickBounds == BoundsNew(Vec(0, 0), WIDTH, HEIGHT)
TickOptions == [capacity |-> TickCapacity, max_depth |-> None, min_size |-> NoSize]

\* the arena the ball_edge_*_collision checks of the tick reflect at
EdgeBounds == TickBounds

\* the bodies of a tick, id = index
Scenes ==
    << \* two overlapping bodies approaching head-on
       << Body(FVec(100, 100), FVec(5, 0), 5), Body(FVec(108, 100), FVec(-5, 0), 5) >>,
       \* five bodies: an overlapping pair in each upper quadrant, one on the split line
       << Body(FVec(-108, 100), FVec(4, 0), 5), Body(FVec(-100, 100), FVec(-4, 0), 5),
          Body(FVec(100, 100), FVec(5, 0), 5), Body(FVec(108, 100), FVec(-5, 0), 5),
          Body(FVec(0, 100), FVec(0, 1), 5) >>,
       \* coincident centres
       << Body(FVec(50, 50), FVec(1, 0), 5), Body(FVec(50, 50), FVec(-1, 0), 5) >>,
       \* two bodies far apart
       << Body(FVec(-200, 0), FVec(1, 0), 5), Body(FVec(200, 0), FVec(-1, 0), 3) >>,
       \* bodies past the right wall and past the left and top walls
       << Body(FVec(510, 0), FVec(3, 0), 5), Body(FVec(-509, 380), FVec(-2, 2), 5) >>,
       \* a chain of three overlapping bodies in one region
       << Body(FVec(100, 0), FVec(1, 0), 5), Body(FVec(108, 0), FVec(0, 0), 5),
          Body(FVec(116, 0), FVec(-1, 0), 5) >>,
       \* six bodies, five of them in the upper right quadrant, which splits
       << Body(FVec(40, 40), FVec(2, 0), 5), Body(FVec(48, 40), FVec(-2, 0), 5),
          Body(FVec(300, 300), FVec(0, 0), 3), Body(FVec(304, 300), FVec(0, -1), 3),
          Body(FVec(400, 100), FVec(1, 1), 5), Body(FVec(-300, -200), FVec(1, 0), 5) >>,
       \* a body far outside the arena beside an overlapping pair
       << Body(FVec(100, 0), FVec(1, 0), 5), Body(FVec(2000, 0), FVec(1, 0), 5),
          Body(FVec(108, 0), FVec(-1, 0), 5) >>,
       \* a body overlapping one body beside it and one above its centre
       << Body(FVec(100, 0), FVec(1, 0), 15), Body(FVec(118, 0), FVec(-1, 0), 5),
          Body(FVec(99, 5), FVec(0, 0), 20) >>,
       \* two overlapping bodies on a slanted line
       << Body(FVec(0, 0), FVec(2, 1), 5), Body(FVec(6, 8), FVec(-1, 0), 7) >>,
       \* a body whose bounding square covers a whole leaf, a small body in
       \* that leaf, and three more that make the tree split down to it
       << Body(FVec(96, 72), FVec(1, 0), 40), Body(FVec(90, 70), FVec(-1, 0), 5),
          Body(FVec(20, 20), FVec(0, 0), 3), Body(FVec(100, 20), FVec(0, 0), 3),
          Body(FVec(20, 80), FVec(0, 0), 3) >> >>

\* the wall pass for one body: top || bottom, then left || right
WallPass(bounds, b) ==
    LET t == CheckTop(bounds, b)
        v == IF t.hit THEN t.body ELSE CheckBottom(bounds, b).body
        l == CheckLeft(bounds, v)
    IN  IF l.hit THEN l.body ELSE CheckRight(bounds, v).body

\* a whole-valued f32 as a coordinate of the tree
TreeCoord(a) == a.n \div a.d

\* Location::from_center(translation, radius * 2, radius * 2)
BodyLocation(b) ==
    LocationFromCenter(Vec(TreeCoord(b.pos.x), TreeCoord(b.pos.y)),
                       TreeCoord(FMul(b.radius, F(2))), TreeCoord(FMul(b.radius, F(2))))

InitTick ==
    /\ tree = QuadTreeNew(TickBounds)
    /\ options = TickOptions
    /\ inserted = {}
    /\ last = NoCall
    /\ status = "run"
    /\ \E sc \in 1..Len(Scenes) :
          /\ bodies = Scenes[sc]
          /\ ctl = [IdleCtl EXCEPT !.pc = "walls", !.scene = sc, !.k = 1]
    /\ collisions = <<>>
    /\ hist = NoHist

\* main.rs 256-267: the wall checks of body k; after the last, the new tree
WallStep ==
    /\ ctl.pc = "walls"
    /\ bodies' = [bodies EXCEPT ![ctl.k] = WallPass(EdgeBounds, bodies[ctl.k])]
    /\ IF ctl.k < Len(bodies)
       THEN ctl' = [ctl EXCEPT !.k = ctl.k + 1]
       ELSE ctl' = [ctl EXCEPT !.pc = "insert", !.k = 1]
    /\ tree' = QuadTreeNew(TickBounds)
    /\ UNCHANGED <<options, inserted, last, status, collisions, hist>>

\* main.rs 269-280: tree.insert of body k; an OutOfBounds is printed only
InsertStep ==
    /\ ctl.pc = "insert"
    /\ LET loc == BodyLocation(bodies[ctl.k])
           r == Insert(tree, loc, ctl.k, options, 0)
       IN  /\ last' = [called |-> TRUE, loc |-> loc, val |-> ctl.k,
                       res |-> r.res, errBounds |-> r.bounds, before |-> tree]
           /\ tree' = r.tree
           /\ inserted' = IF r.res = "Ok"
                          THEN inserted \cup {Entry(loc, ctl.k)} ELSE inserted
           /\ status' = IF r.res = "Panic" THEN "panicked" ELSE "run"
           /\ IF r.res = "Panic"
              THEN ctl' = [ctl EXCEPT !.pc = "panicked"]
              ELSE IF ctl.k < Len(bodies)
              THEN ctl' = [ctl EXCEPT !.k = ctl.k + 1]
              ELSE ctl' = [ctl EXCEPT !.pc = "region", !.ri = 1,
                                      !.regions = GetRegions(r.tree)]
    /\ UNCHANGED <<options, bodies, collisions, hist>>

\* main.rs 282-288: the next region of the tree; parts of one entry are skipped
RegionStep ==
    /\ ctl.pc = "region"
    /\ IF ctl.ri > Len(ctl.regions)
       THEN ctl' = [ctl EXCEPT !.pc = "done"] /\ UNCHANGED collisions
       ELSE IF Len(ctl.regions[ctl.ri].elems) < 2
       THEN ctl' = [ctl EXCEPT !.ri = ctl.ri + 1] /\ UNCHANGED collisions
       ELSE /\ ctl' = [ctl EXCEPT !.pc = "check", !.i = 1, !.j = 1]
            /\ collisions' = <<>>
    /\ UNCHANGED <<tree, options, inserted, last, status, bodies, hist>>

\* main.rs 289-309: one iteration of the inner loop over the part
CheckStep ==
    /\ ctl.pc = "check"
    /\ LET part == ctl.regions[ctl.ri].elems
           a == part[ctl.i].val
           b == part[ctl.j].val
           r == Check(collisions, a, bodies[a], b, bodies[b])
       IN  /\ IF a = b
              THEN UNCHANGED <<bodies, collisions, hist>>
              ELSE /\ bodies' = [bodies EXCEPT ![a] = r.a, ![b] = r.b]
                   /\ collisions' = r.store
                   /\ hist' = [hist EXCEPT
                         !.checked = Append(@, [region |-> ctl.ri, a |-> a, b |-> b]),
                         !.recorded = IF Len(r.store) > Len(collisions)
                                      THEN Append(@, [region |-> ctl.ri, pair |-> <<a, b>>])
                                      ELSE @,
                         !.pre = IF Len(r.store) > Len(collisions)
                                 THEN Append(@, [a |-> bodies[a].pos, b |-> bodies[b].pos])
                                 ELSE @]
           /\ IF ctl.j < Len(part)
              THEN ctl' = [ctl EXCEPT !.j = ctl.j + 1]
              ELSE IF ctl.i < Len(part)
              THEN ctl' = [ctl EXCEPT !.i = ctl.i + 1, !.j = 1]
              ELSE ctl' = [ctl EXCEPT !.pc = "respond", !.ci = 1]
    /\ UNCHANGED <<tree, options, inserted, last, status>>

\* main.rs 311-321: the response for the next pair of the region's store
BounceStep ==
    /\ ctl.pc = "respond"
    /\ IF ctl.ci > Len(collisions)
       THEN /\ ctl' = [ctl EXCEPT !.pc = "region", !.ri = ctl.ri + 1]
            /\ UNCHANGED <<bodies, hist>>
       ELSE LET pair == collisions[ctl.ci]
                r == Bounce(bodies[pair[1]], bodies[pair[2]])
            IN  /\ bodies' = [bodies EXCEPT ![pair[1]] = r.a, ![pair[2]] = r.b]
                /\ hist' = [hist EXCEPT
                      !.applied = Append(@, [region |-> ctl.ri, pair |-> pair]),
                      !.before = bodies]
                /\ ctl' = [ctl EXCEPT !.ci = ctl.ci + 1]
    /\ UNCHANGED <<tree, options, inserted, last, status, collisions>>

NextTick == WallStep \/ InsertStep \/ RegionStep \/ CheckStep \/ BounceStep

SpecTick == InitTick /\ [][NextTick]_vars

\* ------------------------------------- the wall checks applied to one body
\* a second arena, only a few radii wide
TightBounds == BoundsNew(Vec(0, 0), 14, 14)
WallArenas == { EdgeBounds, TightBounds }
WallRadii == {3, 5, 8}
WallVel == { Vec(-2, 3), Vec(2, -3) }
\* distance of the body's centre from the line one radius inside a wall
WallOffsets == { F(-2000), F(-3), Frac(-1, 2), F(0), Frac(1, 2), F(3) }

\* centre coordinates around the two limits lo + radius and hi - radius
WallCoords(lo, hi, radius) ==
    { FAdd(FAdd(F(lo), F(radius)), d) : d \in WallOffsets }
    \cup { FSub(FSub(F(hi), F(radius)), d) : d \in WallOffsets }

InitWall ==
    /\ \E arena \in WallArenas, radius \in WallRadii, v \in WallVel :
        \E x \in WallCoords(Left(arena), Right(arena), radius),
           y \in WallCoords(Bottom(arena), Top(arena), radius) :
            /\ tree = QuadTreeNew(arena)
            /\ bodies = << Body([x |-> x, y |-> y], FVec(v.x, v.y), radius) >>
    /\ options = TickOptions
    /\ inserted = {}
    /\ last = NoCall
    /\ status = "run"
    /\ collisions = <<>>
    /\ ctl = [IdleCtl EXCEPT !.pc = "wall"]
    /\ hist = NoHist

\* one call of a check on the body; hist keeps the body before and the result
WallLeft ==
    /\ ctl.pc = "wall"
    /\ hist.op = "none"
    /\ LET r == CheckLeft(tree.bounds, bodies[1])
       IN  /\ bodies' = << r.body >>
           /\ hist' = [hist EXCEPT !.op = "left", !.before = bodies,
                                   !.checked = << r.hit >>]
    /\ UNCHANGED <<tree, options, inserted, last, status, collisions, ctl>>

WallRight ==
    /\ ctl.pc = "wall"
    /\ hist.op = "none"
    /\ LET r == CheckRight(tree.bounds, bodies[1])
       IN  /\ bodies' = << r.body >>
           /\ hist' = [hist EXCEPT !.op = "right", !.before = bodies,
                                   !.checked = << r.hit >>]
    /\ UNCHANGED <<tree, options, inserted, last, status, collisions, ctl>>

WallTop ==
    /\ ctl.pc = "wall"
    /\ hist.op = "none"
    /\ LET r == CheckTop(tree.bounds, bodies[1])
       IN  /\ bodies' = << r.body >>
           /\ hist' = [hist EXCEPT !.op = "top", !.before = bodies,
                                   !.checked = << r.hit >>]
    /\ UNCHANGED <<tree, options, inserted, last, status, collisions, ctl>>

WallBottom ==
    /\ ctl.pc = "wall"
    /\ hist.op = "none"
    /\ LET r == CheckBottom(tree.bounds, bodies[1])
       IN  /\ bodies' = << r.body >>
           /\ hist' = [hist EXCEPT !.op = "bottom", !.before = bodies,
                                   !.checked = << r.hit >>]
    /\ UNCHANGED <<tree, options, inserted, last, status, collisions, ctl>>

NextWall == WallLeft \/ WallRight \/ WallTop \/ WallBottom

SpecWall == InitWall /\ [][NextWall]_vars

\* ------------------------------------------- Bounds::contains on one point
\* the bounds of tests::bounds_contains_point, of tests::bounds_from_corners
\* and of the tick's tree
ContainsBounds ==
    { BoundsNew(Vec(0, 0), 4, 4), BoundsNew(Vec(5, 5), 10, 10), TickBounds }

\* coordinates on, beside and between the two edges lo and hi of an axis
EdgeCoords(lo, hi) ==
    { lo - 1, lo, lo + 1, (lo + hi) \div 2, hi - 1, hi, hi + 1 }

InitContains ==
    /\ \E b \in ContainsBounds :
        \E x \in EdgeCoords(Left(b), Right(b)) \cup {10},
           y \in EdgeCoords(Bottom(b), Top(b)) \cup {10} :
            /\ tree = QuadTreeNew(b)
            /\ last = [NoCall EXCEPT !.loc = LocPoint(Vec(x, y))]
    /\ options = TickOptions
    /\ inserted = {}
    /\ status = "run"
    /\ bodies = <<>>
    /\ collisions = <<>>
    /\ ctl = [IdleCtl EXCEPT !.pc = "contains"]
    /\ hist = NoHist

\* bounds.contains(point); hist keeps the result
ContainsCall ==
    /\ ctl.pc = "contains"
    /\ hist.op = "none"
    /\ hist' = [hist EXCEPT !.op = "contains",
                            !.checked = << BoundsContains(tree.bounds, last.loc.center) >>]
    /\ UNCHANGED <<tree, options, inserted, last, status, bodies, collisions, ctl>>

NextContains == ContainsCall

SpecContains == InitContains /\ [][NextContains]_vars

\* ----------------------------------------------- properties of the tree
\* every node of the subtree t, with its number of ancestors
RECURSIVE Nodes(_, _)
Nodes(t, level) ==
    {[node |-> t, level |-> level]}
    \cup (IF t.kind = "Node"
          THEN UNION {Nodes(t.regions[i], level + 1) : i \in 1..4}
          ELSE {})

Range(seq) == {seq[i] : i \in 1..Len(seq)}

\* the entries held by the leaves of the subtree t
RECURSIVE EntriesOf(_)
EntriesOf(t) ==
    IF t.kind = "Leaf" THEN Range(t.elems)
    ELSE IF t.kind = "Node" THEN UNION {EntriesOf(t.regions[i]) : i \in 1..4}
    ELSE {}

\* geometry stated on edges, independently of the code's helpers
XMin(c, h) == c.x - h.x
XMax(c, h) == c.x + h.x
YMin(c, h) == c.y - h.y
YMax(c, h) == c.y + h.y

PointInRect(p, b) ==
    /\ XMin(b.center, b.half_extents) <= p.x
    /\ p.x <= XMax(b.center, b.half_extents)
    /\ YMin(b.center, b.half_extents) <= p.y
    /\ p.y <= YMax(b.center, b.half_extents)

CornersOf(loc) ==
    { Vec(x, y) : x \in {XMin(loc.center, loc.half_extents), XMax(loc.center, loc.half_extents)},
                  y \in {YMin(loc.center, loc.half_extents), YMax(loc.center, loc.half_extents)} }

\* the rectangle of loc and the rectangle b share at least one point
SharesPoint(loc, b) ==
    /\ XMin(loc.center, loc.half_extents) <= XMax(b.center, b.half_extents)
    /\ XMin(b.center, b.half_extents) <= XMax(loc.center, loc.half_extents)
    /\ YMin(loc.center, loc.half_extents) <= YMax(b.center, b.half_extents)
    /\ YMin(b.center, b.half_extents) <= YMax(loc.center, loc.half_extents)

\* one of the corners of loc lies in the rectangle b
CornerInside(loc, b) == \E p \in CornersOf(loc) : PointInRect(p, b)

\* C1: a top-level insert returns OutOfBounds(root bounds, location) exactly
\* when the root's contains test fails for the location, whatever the shape
\* of the tree, and then the tree is as it was before the call.
C1_OutOfBoundsIffRootRejects ==
    last.called =>
        /\ (last.res = "OutOfBounds") <=> ~CornerInside(last.loc, last.before.bounds)
        /\ last.res = "OutOfBounds" =>
              /\ tree = last.before
              /\ last.errBounds = RootBounds

\* C1 witness: an insert into a Node was accepted by the root although a
\* child quadrant rejected it, and another call on a Node returned the error
C1_Witness ==
    /\ last.called
    /\ last.before.kind = "Node"
    /\ last.res = "Ok"
    /\ \E i \in 1..4 : ~CornerInside(last.loc, last.before.regions[i].bounds)

C1_WitnessErr ==
    /\ last.called
    /\ last.before.kind = "Node"
    /\ last.res = "OutOfBounds"

Unlimited == options.max_depth = None /\ options.min_size = NoSize

SamePoint(elems) == \A i, j \in 1..Len(elems) : elems[i].loc = elems[j].loc

\* C2: with max_depth and min_size unset, after any sequence of successful
\* inserts every leaf holds at most capacity entries unless all its entries
\* are at the same point.
C2_LeafWithinCapacity ==
    (Unlimited /\ status = "run") =>
        \A n \in Nodes(tree, 0) :
            n.node.kind = "Leaf" =>
                \/ Len(n.node.elems) <= options.capacity
                \/ SamePoint(n.node.elems)

\* C2 witness: an over-capacity leaf was split and a leaf is filled to capacity
C2_Witness ==
    /\ Unlimited /\ status = "run"
    /\ tree.kind = "Node"
    /\ \E n \in Nodes(tree, 0) :
          n.node.kind = "Leaf" /\ Len(n.node.elems) = options.capacity
    /\ Cardinality(inserted) > options.capacity

\* every entry of es, the entries accepted by t, is stored in each child of
\* t it hits; exact: hits means shares a point, else: has a corner inside
RECURSIVE Placed(_, _, _)
Placed(t, es, exact) ==
    t.kind = "Node" =>
        \A i \in 1..4 :
            LET c == t.regions[i]
                hit == {e \in es : IF exact THEN SharesPoint(e.loc, c.bounds)
                                            ELSE CornerInside(e.loc, c.bounds)}
            IN  /\ hit \subseteq EntriesOf(c)
                /\ Placed(c, {e \in es : CornerInside(e.loc, c.bounds)}, exact)

Quadrant(b, i) ==
    LET qx == Half(b.half_extents.x)
        qy == Half(b.half_extents.y)
        sx == IF i \in {2, 3} THEN 1 ELSE -1
        sy == IF i \in {1, 2} THEN 1 ELSE -1
    IN  BoundsNew(Vec(b.center.x + sx * qx, b.center.y + sy * qy),
                  b.half_extents.x, b.half_extents.y)

\* the children of a node tile its bounds: four quadrants around the centre
Tiles(t) ==
    LET b == t.bounds
        nw == t.regions[1].bounds
        ne == t.regions[2].bounds
        se == t.regions[3].bounds
        sw == t.regions[4].bounds
    IN  /\ Len(t.regions) = 4
        /\ \A i \in 1..4 :
              /\ t.regions[i].bounds = Quadrant(b, i)
              /\ Width(t.regions[i].bounds) * 2 = Width(b)
              /\ Height(t.regions[i].bounds) * 2 = Height(b)
        /\ Left(nw) = Left(b) /\ Right(nw) = b.center.x
        /\ Left(sw) = Left(b) /\ Right(sw) = b.center.x
        /\ Left(ne) = b.center.x /\ Right(ne) = Right(b)
        /\ Left(se) = b.center.x /\ Right(se) = Right(b)
        /\ Top(nw) = Top(b) /\ Bottom(nw) = b.center.y
        /\ Top(ne) = Top(b) /\ Bottom(ne) = b.center.y
        /\ Top(sw) = b.center.y /\ Bottom(sw) = Bottom(b)
        /\ Top(se) = b.center.y /\ Bottom(se) = Bottom(b)

\* C4: every Node has exactly four children whose bounds are the four
\* quadrants around the parent's centre, each of half the width and height,
\* tiling the parent's bounds and sharing only edges.
C4_NodeChildrenAreQuadrants ==
    \A n \in Nodes(tree, 0) : n.node.kind = "Node" => Tiles(n.node)

\* C4 witness: a child of the root has itself been split
C4_Witness ==
    /\ tree.kind = "Node"
    /\ \E i \in 1..4 : tree.regions[i].kind = "Node"

\* C5 as stated: the root has depth 0 and the depth of every node is its
\* number of ancestors; with max_depth = Some(d) no node at a level >= d is
\* split, and an over-capacity leaf at a level below d is split.
C5_DepthIsNumberOfAncestors ==
    \A n \in Nodes(tree, 0) :
        /\ n.node.depth = n.level
        /\ (options.max_depth.some /\ n.node.kind = "Node")
              => n.level < options.max_depth.v
        /\ (/\ options.max_depth.some /\ ~options.min_size.some
            /\ n.node.kind = "Leaf" /\ n.level < options.max_depth.v)
              => Len(n.node.elems) <= options.capacity

\* ------------------------------------- properties of check and response
VSub(p, q) == [x |-> FSub(p.x, q.x), y |-> FSub(p.y, q.y)]
Dot(p, q) == FAdd(FMul(p.x, q.x), FMul(p.y, q.y))
Cross(p, q) == FSub(FMul(p.x, q.y), FMul(p.y, q.x))
Dist2(A, B) == Dot(VSub(A.pos, B.pos), VSub(A.pos, B.pos))

\* from has moved to `to` by the length len, straight away from `other`
MovedAway(from, to, other, len) ==
    LET step == VSub(to, from)
        away == VSub(from, other)
    IN  /\ FEq(Dot(step, step), FMul(len, len))
        /\ FEq(Cross(step, away), F(0))
        /\ FGe(Dot(step, away), F(0))

\* C8 as stated: check leaves positions and accumulator unchanged when the
\* squared centre distance exceeds (radiusA + radiusB)^2; otherwise it
\* appends exactly the pair [A,B], the centre distance becomes
\* radiusA + radiusB, each body having moved half the penetration depth
\* away from the other; velocities are never changed.
C8_CheckResolvesToContact ==
    hist.op = "check" =>
        LET A == hist.before[1]
            B == hist.before[2]
            r == FAdd(A.radius, B.radius)
            half == FMul(FSub(r, FSqrt(Dist2(A, B))), Frac(1, 2))
        IN  /\ bodies[1].vel = A.vel /\ bodies[2].vel = B.vel
            /\ IF FGt(Dist2(A, B), FMul(r, r))
               THEN bodies = hist.before /\ collisions = hist.storeBefore
               ELSE /\ collisions = Append(hist.storeBefore, <<1, 2>>)
                    /\ FEq(Dist2(bodies[1], bodies[2]), FMul(r, r))
                    /\ MovedAway(A.pos, bodies[1].pos, B.pos, half)
                    /\ MovedAway(B.pos, bodies[2].pos, A.pos, half)

DistinctCentres(A, B) ==
    /\ IsFinite(A.pos.x) /\ IsFinite(A.pos.y)
    /\ IsFinite(B.pos.x) /\ IsFinite(B.pos.y)
    /\ A.pos # B.pos

MomentumX(A, B) == FAdd(FMul(A.mass, A.vel.x), FMul(B.mass, B.vel.x))
MomentumY(A, B) == FAdd(FMul(A.mass, A.vel.y), FMul(B.mass, B.vel.y))
Energy(A, B) ==
    FMul(FAdd(FMul(A.mass, Dot(A.vel, A.vel)), FMul(B.mass, Dot(B.vel, B.vel))),
         Frac(1, 2))

\* C10: the response applied once to a pair with distinct centres and
\* positive masses leaves total momentum and total kinetic energy
\* unchanged and changes neither position.
C10_BounceConservesMomentumAndEnergy ==
    (hist.op = "bounce" /\ DistinctCentres(hist.before[1], hist.before[2])) =>
        LET A == hist.before[1]
            B == hist.before[2]
        IN  /\ bodies[1].pos = A.pos /\ bodies[2].pos = B.pos
            /\ FEq(MomentumX(bodies[1], bodies[2]), MomentumX(A, B))
            /\ FEq(MomentumY(bodies[1], bodies[2]), MomentumY(A, B))
            /\ FEq(Energy(bodies[1], bodies[2]), Energy(A, B))

\* C10 witness: the response changed the velocities of two bodies of
\* different mass whose centres are not on a common axis
C10_Witness ==
    /\ hist.op = "bounce"
    /\ DistinctCentres(hist.before[1], hist.before[2])
    /\ bodies[1].mass # bodies[2].mass
    /\ bodies[1].vel # hist.before[1].vel
    /\ bodies[1].pos.x # bodies[2].pos.x /\ bodies[1].pos.y # bodies[2].pos.y

\* ------------------------------------------------ properties of the tick
Pair(c) == {c.a, c.b}

\* the calls of check made while the loop was in region r
CallsIn(r) == SelectSeq(hist.checked, LAMBDA c : c.region = r)

IdsOf(region) == {region.elems[n].val : n \in 1..Len(region.elems)}

\* C6 as stated: within a leaf region every unordered pair of distinct body
\* ids is passed to the overlap check exactly once, never both as (A,B) and
\* as (B,A), and an id is never checked against itself.
C6_EachUnorderedPairOnce ==
    /\ \A n \in 1..Len(hist.checked) : hist.checked[n].a # hist.checked[n].b
    /\ \A n, m \in 1..Len(hist.checked) :
          (n # m /\ hist.checked[n].region = hist.checked[m].region)
              => Pair(hist.checked[n]) # Pair(hist.checked[m])
    /\ ctl.pc = "respond" =>
          \A a, b \in IdsOf(ctl.regions[ctl.ri]) :
              a # b => \E n \in 1..Len(CallsIn(ctl.ri)) : Pair(CallsIn(ctl.ri)[n]) = {a, b}

IsPrefix(p, q) == Len(p) <= Len(q) /\ p = SubSeq(q, 1, Len(p))

\* a pairwise overlap check of this tick is still to be made
ChecksRemaining ==
    \/ ctl.pc \in {"walls", "insert", "check"}
    \/ /\ ctl.pc \in {"region", "respond"}
       /\ \E r \in 1..Len(ctl.regions) :
             /\ r >= (IF ctl.pc = "region" THEN ctl.ri ELSE ctl.ri + 1)
             /\ Len(ctl.regions[r].elems) >= 2

C9_HeadOnPairExchangesVelocities ==
    (ctl.pc = "done" /\ ctl.scene = 1) =>
        /\ bodies[1].pos.y = F(100) /\ bodies[2].pos.y = F(100)
        /\ FEq(FSub(bodies[2].pos.x, bodies[1].pos.x), F(10))
        /\ bodies[1].vel = FVec(-5, 0)
        /\ bodies[2].vel = FVec(5, 0)

\* ------------------------------------------ properties of the wall checks
WallOps == {"left", "right", "top", "bottom"}
WallBefore == hist.before[1]
WallAfter == bodies[1]
WallHit == hist.checked[1]

\* the limit of a check: one radius inside its wall
WallLimit(op, arena, b) ==
    CASE op = "left" -> FAdd(F(Left(arena)), b.radius)
      [] op = "right" -> FSub(F(Right(arena)), b.radius)
      [] op = "top" -> FSub(F(Top(arena)), b.radius)
      [] op = "bottom" -> FAdd(F(Bottom(arena)), b.radius)

\* the coordinate a check works on, and the other one
Along(op, v) == IF op \in {"left", "right"} THEN v.x ELSE v.y
Across(op, v) == IF op \in {"left", "right"} THEN v.y ELSE v.x

\* the edge of the body has reached or crossed the wall of the check
Reached(op, arena, b) ==
    IF op \in {"left", "bottom"}
    THEN FLe(Along(op, b.pos), WallLimit(op, arena, b))
    ELSE FGe(Along(op, b.pos), WallLimit(op, arena, b))

\* C11: a wall check fires exactly when the body's edge has reached or
\* crossed its wall; it then mirrors the position at the limit (the new
\* position lies as far inside the limit as the old one lay outside) and
\* negates the velocity component of its axis, so a velocity towards the
\* wall points away from it with the same magnitude; otherwise it changes
\* nothing; the coordinate and the velocity of the other axis, the radius
\* and the mass are never changed.
C11_WallCheckMirrorsOvershoot ==
    (ctl.pc = "wall" /\ hist.op \in WallOps) =>
        LET op == hist.op
            lim == WallLimit(op, tree.bounds, WallBefore)
            p0 == Along(op, WallBefore.pos)
            p1 == Along(op, WallAfter.pos)
            v0 == Along(op, WallBefore.vel)
            v1 == Along(op, WallAfter.vel)
        IN  /\ WallHit <=> Reached(op, tree.bounds, WallBefore)
            /\ WallHit => /\ FEq(FSub(p1, lim), FSub(lim, p0))
                          /\ FEq(FAdd(v1, v0), F(0))
                          /\ FLt(v0, F(0)) => FGt(v1, F(0))
                          /\ FGt(v0, F(0)) => FLt(v1, F(0))
            /\ ~WallHit => WallAfter = WallBefore
            /\ Across(op, WallAfter.pos) = Across(op, WallBefore.pos)
            /\ Across(op, WallAfter.vel) = Across(op, WallBefore.vel)
            /\ WallAfter.radius = WallBefore.radius
            /\ WallAfter.mass = WallBefore.mass

\* check_left has fired on a body half a unit past its limit, moving left
C11_Witness ==
    /\ ctl.pc = "wall" /\ hist.op = "left" /\ WallHit
    /\ FEq(FSub(WallLimit("left", tree.bounds, WallBefore), WallBefore.pos.x),
           Frac(1, 2))
    /\ FLt(WallBefore.vel.x, F(0))
    /\ FGt(WallAfter.vel.x, F(0))

\* the check at the opposite wall of the same axis
Opposite(op) ==
    CASE op = "left" -> "right" [] op = "right" -> "left"
      [] op = "top" -> "bottom" [] op = "bottom" -> "top"

\* the result of the check op on the body b
WallCheck(op, arena, b) ==
    CASE op = "left" -> CheckLeft(arena, b)
      [] op = "right" -> CheckRight(arena, b)
      [] op = "top" -> CheckTop(arena, b)
      [] op = "bottom" -> CheckBottom(arena, b)

\* how far the body lay beyond the limit of the check
Overshoot(op, arena, b) ==
    IF op \in {"left", "bottom"}
    THEN FSub(WallLimit(op, arena, b), Along(op, b.pos))
    ELSE FSub(Along(op, b.pos), WallLimit(op, arena, b))

\* the distance between the two limits of the axis of the check: the extent
\* of the arena less the diameter of the body
FreeExtent(op, arena, b) ==
    IF op \in {"left", "bottom"}
    THEN FSub(WallLimit(Opposite(op), arena, b), WallLimit(op, arena, b))
    ELSE FSub(WallLimit(op, arena, b), WallLimit(Opposite(op), arena, b))

\* the first check of an axis has fired in the last step
FirstCheckFired == ctl.pc = "wall" /\ hist.op \in {"left", "top"} /\ WallHit

\* C12 (as stated): whenever check_left or check_top has fired, the check of
\* the opposite wall would not fire on the corrected body.
C12_OppositeCheckNeverFires ==
    FirstCheckFired => ~WallCheck(Opposite(hist.op), tree.bounds, WallAfter).hit

\* C12 (amended): when check_left or check_top has fired, the check of the
\* opposite wall fires on the corrected body exactly when the overshoot was
\* at least the distance between the two limits of the axis; for a smaller
\* overshoot the skipped check would not have fired.
C12_OppositeFiresOnlyOnWideOvershoot ==
    FirstCheckFired =>
        (WallCheck(Opposite(hist.op), tree.bounds, WallAfter).hit
            <=> FGe(Overshoot(hist.op, tree.bounds, WallBefore),
                    FreeExtent(hist.op, tree.bounds, WallBefore)))

\* check_top has fired on a body three units past its limit in the tight
\* arena with four units between the limits; check_bottom would not fire
C12_Witness ==
    /\ FirstCheckFired /\ hist.op = "top"
    /\ tree.bounds = TightBounds
    /\ FEq(Overshoot("top", tree.bounds, WallBefore), F(3))
    /\ FEq(FreeExtent("top", tree.bounds, WallBefore), F(4))
    /\ ~CheckBottom(tree.bounds, WallAfter).hit

\* ------------------------------- properties of a tick with a failed insert
\* the ids whose insert of this tick has been made
Attempted ==
    IF ctl.pc = "walls" THEN {}
    ELSE IF ctl.pc = "insert" THEN 1..(ctl.k - 1)
    ELSE 1..Len(bodies)

InsertedIds == {e.val : e \in inserted}

\* the ids whose insert of this tick returned OutOfBounds
FailedIds == Attempted \ InsertedIds

\* the body k of the scene after the wall pass
WallChecked(k) == WallPass(EdgeBounds, Scenes[ctl.scene][k])

\* the responses for the pairs store[k..] applied to the two bodies bs
RECURSIVE ApplyStore(_, _, _)
ApplyStore(bs, store, k) ==
    IF k > Len(store) THEN bs
    ELSE LET p == store[k]
             r == Bounce(bs[p[1]], bs[p[2]])
         IN  ApplyStore([bs EXCEPT ![p[1]] = r.a, ![p[2]] = r.b], store, k + 1)

\* the pair loop and the response loop of one leaf that holds only A and B
PairAlone(A, B) ==
    LET c1 == Check(<<>>, 1, A, 2, B)
        c2 == Check(c1.store, 2, c1.b, 1, c1.a)
    IN  ApplyStore(<<c2.b, c2.a>>, c2.store, 1)

\* C13: in a tick where an insert has failed with OutOfBounds the tick has
\* not crashed and is at one of its steps or done; the failing body keeps the
\* state the wall pass gave it, is in no leaf, and is in no overlap check
\* and in no response; the failing insert left the tree as it was; and two
\* other bodies end the tick as the pair loop and the response of those two
\* alone leave them.
C13_FailedInsertLeavesTickIntact ==
    (ctl.pc \in {"insert", "region", "check", "respond", "done"}
        /\ FailedIds # {}) =>
        /\ status = "run"
        /\ \A f \in FailedIds :
            /\ bodies[f] = WallChecked(f)
            /\ f \notin {e.val : e \in EntriesOf(tree)}
            /\ \A n \in 1..Len(hist.checked) : f \notin Pair(hist.checked[n])
            /\ \A n \in 1..Len(hist.applied) : f \notin Range(hist.applied[n].pair)
        /\ (last.called /\ last.res = "OutOfBounds") =>
              tree = last.before /\ last.errBounds = TickBounds
        /\ (ctl.pc = "done" /\ Cardinality(InsertedIds) = 2) =>
              LET a == CHOOSE n \in InsertedIds : \A o \in InsertedIds : n <= o
                  b == CHOOSE n \in InsertedIds : n # a
              IN  <<bodies[a], bodies[b]>> = PairAlone(WallChecked(a), WallChecked(b))

\* the tick is done, the insert of the body beyond the right wall failed
\* between the inserts of two overlapping bodies, which got their response
C13_Witness ==
    /\ ctl.pc = "done"
    /\ FailedIds = {2}
    /\ InsertedIds = {1, 3}
    /\ Len(hist.applied) > 0
    /\ bodies[1] # WallChecked(1)

\* ---------------------------------------------- properties of contains
ContainsResult == hist.checked[1]
ContainsPoint == last.loc.center

\* the point lies on one of the four edges (corners included)
OnEdge(p, b) ==
    /\ PointInRect(p, b)
    /\ \/ p.x = XMin(b.center, b.half_extents)
       \/ p.x = XMax(b.center, b.half_extents)
       \/ p.y = YMin(b.center, b.half_extents)
       \/ p.y = YMax(b.center, b.half_extents)

\* C14: contains(p) is true exactly when left <= p.x <= right and
\* bottom <= p.y <= top, the four edges being the centre less or plus the
\* half extents; a point on an edge or on a corner is contained.
C14_ContainsIsInclusive ==
    (ctl.pc = "contains" /\ hist.op = "contains") =>
        /\ ContainsResult <=> PointInRect(ContainsPoint, tree.bounds)
        /\ OnEdge(ContainsPoint, tree.bounds) => ContainsResult

\* contains has returned true for the top right corner of the bounds
C14_Witness ==
    /\ ctl.pc = "contains" /\ hist.op = "contains"
    /\ ContainsPoint.x = tree.bounds.center.x + tree.bounds.half_extents.x
    /\ ContainsPoint.y = tree.bounds.center.y + tree.bounds.half_extents.y
    /\ ContainsResult

\* ------------------------------------- properties of the response's normal
\* the response of the pair collisions[ctl.ci - 1] is the step just taken
JustResponded == ctl.pc = "respond" /\ ctl.ci > 1
RespondedPair == collisions[ctl.ci - 1]

\* the positions the pair had when its check recorded it, before the
\* correction of that check
PreCorrection == hist.pre[Len(hist.applied)]

AtPosition(b, pos) == [b EXCEPT !.pos = pos]

\* the pairs recorded in the region of the loop
RecordedHere ==
    SelectSeq(hist.recorded, LAMBDA c : c.region = ctl.ri)

\* between recording and response the two bodies were moved by the checks
\* of this pair only
MovedByOwnChecksOnly(a, b) ==
    \A n \in 1..Len(RecordedHere) :
        LET p == Range(RecordedHere[n].pair)
        IN  (a \in p \/ b \in p) => p = {a, b}

FCross(ux, uy, wx, wy) == FSub(FMul(ux, wy), FMul(uy, wx))

FiniteVec(v) == IsFinite(v.x) /\ IsFinite(v.y)

\* the two centres are the same finite point
Coincident(A, B) == FiniteVec(A.pos) /\ FiniteVec(B.pos) /\ A.pos = B.pos

\* C16 (as stated): check on two bodies with coincident centres divides by
\* no zero distance: both positions stay finite and the centres end
\* radiusA + radiusB apart; the response on two bodies with coincident
\* centres divides by no zero distance either: the velocities stay finite.
C16_CoincidentCentresHandled ==
    (ctl.pc = "pair" /\ hist.op \in {"check", "bounce"}
        /\ Coincident(hist.before[1], hist.before[2])) =>
        LET A == hist.before[1]
            B == hist.before[2]
            r == FAdd(A.radius, B.radius)
        IN  /\ FiniteVec(bodies[1].pos) /\ FiniteVec(bodies[2].pos)
            /\ FiniteVec(bodies[1].vel) /\ FiniteVec(bodies[2].vel)
            /\ hist.op = "check" => FEq(Dist2(bodies[1], bodies[2]), FMul(r, r))

\* ------------------------------------------- what the leaves of a tree hold
\* the entries the node with bounds b accepts: contains(location) holds
AcceptedBy(b, es) ==
    {e \in es : IF e.loc.kind = "Point" THEN PointInRect(e.loc.center, b)
                ELSE CornerInside(e.loc, b)}

\* C17: after any sequence of inserts that returned, the entries (and so
\* the ids) found in the leaves are those whose top-level insert returned
\* Ok; an insert that returned Ok lost no entry the tree held before; every
\* entry a Node accepts is accepted by one of its four children and found in
\* the leaves below that child; is_empty() holds exactly when count() is 0,
\* for the tree and for every region; no Leaf has an empty entry list.
C17_LeavesHoldExactlyTheAcceptedIds ==
    (ctl.pc = "idle" /\ status = "run") =>
        /\ EntriesOf(tree) = inserted
        /\ {e.val : e \in EntriesOf(tree)} = {e.val : e \in inserted}
        /\ (last.called /\ last.res = "Ok") =>
              EntriesOf(tree) = EntriesOf(last.before) \cup {Entry(last.loc, last.val)}
        /\ \A n \in Nodes(tree, 0) :
              /\ IsEmpty(n.node) <=> Count(n.node) = 0
              /\ n.node.kind = "Leaf" => Len(n.node.elems) >= 1
              /\ n.node.kind = "Node" =>
                    \A e \in AcceptedBy(n.node.bounds, inserted) :
                        \E i \in 1..4 :
                            /\ e \in AcceptedBy(n.node.regions[i].bounds, {e})
                            /\ e \in EntriesOf(n.node.regions[i])

\* a leaf was split and a later insert went into the Node; all three
\* entries are in the leaves
C17_Witness ==
    /\ ctl.pc = "idle" /\ status = "run"
    /\ tree.kind = "Node" /\ last.before.kind = "Node"
    /\ last.called /\ last.res = "Ok"
    /\ Cardinality(inserted) = 3
    /\ Cardinality(EntriesOf(tree)) = 3

\* ------------------------------------- properties of the broad phase's reach
\* the circles of A and B overlap: centre distance <= radiusA + radiusB
Overlapping(A, B) ==
    FLe(Dist2(A, B), FMul(FAdd(A.radius, B.radius), FAdd(A.radius, B.radius)))

\* the insert phase has just ended: no check of the tick has been made
InsertPhaseEnded == ctl.pc = "region" /\ ctl.ri = 1

\* C18 (as stated): after the insert phase any two bodies whose inserts
\* returned Ok and whose circles overlap are together in at least one leaf
\* region, and when the tick is done the pair has been passed to the
\* overlap check at least once.
C18_OverlappingPairSharesALeaf ==
    /\ InsertPhaseEnded =>
          \A a, b \in InsertedIds :
              (a < b /\ Overlapping(bodies[a], bodies[b])) =>
                  \E r \in 1..Len(ctl.regions) : {a, b} \subseteq IdsOf(ctl.regions[r])
    /\ ctl.pc = "done" =>
          \A a, b \in InsertedIds :
              (a < b /\ Overlapping(WallChecked(a), WallChecked(b))) =>
                  \E n \in 1..Len(hist.checked) : Pair(hist.checked[n]) = {a, b}

\* ------------------------------------------ properties of insert's ending
\* C19 (as stated): every call of insert returns, with Ok or OutOfBounds,
\* also when more than capacity entries share one location and max_depth
\* and min_size are unset; no region of the tree has a depth above 255 or
\* bounds without width or height.
C19_InsertTerminatesNormally ==
    ctl.pc = "idle" =>
        /\ status = "run"
        /\ last.called => last.res \in {"Ok", "OutOfBounds"}
        /\ \A n \in Nodes(tree, 0) :
              /\ n.node.depth <= DefaultMaxDepth
              /\ Width(n.node.bounds) > 0
              /\ Height(n.node.bounds) > 0
====
